---------------------------- MODULE Spec2Model ----------------------------
(***************************************************************************)
(* A model of the SPARKCHAIN alert system (src/scripts/alert_system.py):   *)
(* the AlertSystem store (alerts.json), the evaluation cycle               *)
(* (check_alerts and the per-type evaluators) and the audit log            *)
(* (alert_log.json).                                                       *)
(*                                                                         *)
(* Representation.  A Python dict is a function whose DOMAIN is its set of *)
(* keys, so dict.get(k, d), {**a, **b} and "k in d" are modelled as they   *)
(* behave.  None is the empty tuple and a present optional value v is the  *)
(* one-element tuple <<v>>.  A threshold ("value") is a record that says   *)
(* whether float() accepts it.  Time is a clock in whole seconds.  Symbols *)
(* are tuples of one-letter strings, so that str.upper() is a real         *)
(* conversion.                                                             *)
(***************************************************************************)
EXTENDS Integers, Sequences, FiniteSets, TLC

VARIABLES
    alerts,     \* self.alerts: the in-memory list of alert dicts
    disk,       \* data/alerts.json: [ok |-> is it parseable JSON, data |-> the list]
    log,        \* data/alert_log.json, same shape
    now,        \* the clock, in seconds (time.time(), datetime.now())
    ret,        \* the last call: its arguments and what it returned or raised
    hist,       \* history per in-memory alert: what this process observed for it
    faults,     \* how many file writes have failed so far
    procs       \* AlertSystem objects of concurrent processes on the same directory

vars == <<alerts, disk, log, now, ret, hist, faults, procs>>

-----------------------------------------------------------------------------
(* Bounds of the model *)

MaxAlerts == 2      \* create_alert is offered while fewer alerts are stored
MaxClock == 1       \* the clock runs from 0 to MaxClock
MaxLog == 2         \* check_alerts is offered while the log stays this short
MaxFaults == 1      \* file writes that may fail in one behaviour

(* Program constants *)

LOG_CAP == 1000             \* log_data[-1000:]
DEFAULT_SENTIMENT == 50     \* sentiment_data.get("overall_sentiment", 50)

-----------------------------------------------------------------------------
(* Python values *)

None == <<>>
Some(v) == <<v>>

Get(d, k, dflt) == IF k \in DOMAIN d THEN d[k] ELSE dflt
GetOpt(d, k) == IF k \in DOMAIN d THEN Some(d[k]) ELSE None
Put(d, k, v) == [x \in (DOMAIN d) \cup {k} |-> IF x = k THEN v ELSE d[x]]
Merge(a, b) == [x \in (DOMAIN a) \cup (DOMAIN b) |-> IF x \in DOMAIN b THEN b[x] ELSE a[x]]
Truthy(d, k) == k \in DOMAIN d /\ d[k] = TRUE

NumV(n) == [numeric |-> TRUE, n |-> n]
StrV == [numeric |-> FALSE, n |-> 0]

UpperChar(c) ==
    CASE c = "b" -> "B"
      [] c = "t" -> "T"
      [] c = "c" -> "C"
      [] OTHER -> c

Upper(s) == [i \in 1..Len(s) |-> UpperChar(s[i])]

Abs(x) == IF x < 0 THEN -x ELSE x

\* a slip: the slice s[:n] in place of s[-n:]
FirstN(s, n) == IF Len(s) <= n THEN s ELSE SubSeq(s, 1, n)

\* s[-n:]
LastN(s, n) == IF Len(s) <= n THEN s ELSE SubSeq(s, Len(s) - n + 1, Len(s))

RECURSIVE SelectIdx(_, _, _)
SelectIdx(s, keep, i) ==
    IF i > Len(s) THEN <<>>
    ELSE IF i \in keep THEN <<s[i]>> \o SelectIdx(s, keep, i + 1)
    ELSE SelectIdx(s, keep, i + 1)

-----------------------------------------------------------------------------
(* Files *)

File(data) == [ok |-> TRUE, data |-> data]
Corrupt == [ok |-> FALSE, data |-> <<>>]

\* json.load inside try/except: an unreadable file reads as the empty list
ReadList(f) == IF f.ok THEN f.data ELSE <<>>

LoadAlerts == ReadList(disk)

\* open(path, 'w') followed by json.dump: "ok" writes the whole list;
\* "error_unchanged" raises before the file is truncated (makedirs or open
\* fails); "error_partial" raises after the truncation, part way through
WriteOutcomes == {"ok", "error_unchanged", "error_partial"}

\* the environment lets a write fail while fewer than MaxFaults have failed
Faulted(outcome) ==
    /\ outcome # "ok" => faults < MaxFaults
    /\ faults' = IF outcome = "ok" THEN faults ELSE faults + 1

WriteFile(old, data, outcome) ==
    CASE outcome = "ok" -> File(data)
      [] outcome = "error_unchanged" -> old
      [] OTHER -> Corrupt

-----------------------------------------------------------------------------
(* Market data: market_data["trending_coins"] is a tuple of coins *)

Coin(sym, price, volume, change) ==
    [symbol |-> sym, price |-> price, volume24h |-> volume, change24h |-> change]

\* next((c for c in coins if c["symbol"] == symbol), None), as None or Some(c)
RECURSIVE FindCoin(_, _, _)
FindCoin(coins, symbol, i) ==
    IF i > Len(coins) THEN None
    ELSE IF coins[i].symbol = symbol THEN Some(coins[i])
    ELSE FindCoin(coins, symbol, i + 1)

-----------------------------------------------------------------------------
(* Condition evaluators.  Each returns whether the alert fired, the alert  *)
(* dict as the call left it, and whether the call raised.                  *)

Result(fired, alert) == [fired |-> fired, alert |-> alert, raised |-> FALSE]
Raised(alert) == [fired |-> FALSE, alert |-> alert, raised |-> TRUE]

\* a slip: the previous price of a first observation taken to be 0
PreviousPriceZero(alert, current_price) == Get(alert, "last_price", 0)

\* a slip: the stored price used only in the second the model starts in
PreviousPriceByClock(alert, current_price) ==
    IF now = 0 THEN Get(alert, "last_price", current_price) ELSE current_price

\* previous_price = alert.get("last_price", current_price)
PreviousPrice(alert, current_price) == Get(alert, "last_price", current_price)

\* a slip: the observed price not stored
ObserveNothing(alert, current_price) == alert

\* alert["last_price"] = current_price
Observe(alert, current_price) == Put(alert, "last_price", current_price)

\* a slip: crosses_below evaluated as below, the previous price ignored
BelowOnly(previous_price, threshold, current_price) == threshold > current_price

\* previous_price >= threshold > current_price
CrossesBelow(previous_price, threshold, current_price) ==
    previous_price >= threshold /\ threshold > current_price

evaluate_price_alert(alert, coins) ==
    LET symbol == Upper(Get(alert, "symbol", <<>>))
        condition == Get(alert, "condition", "above")
        value == Get(alert, "value", NumV(0))
        coin == FindCoin(coins, symbol, 1)
    IN IF ~value.numeric THEN Raised(alert)
       ELSE IF coin = None THEN Result(FALSE, alert)
       ELSE LET threshold == value.n
                current_price == coin[1].price
                previous_price == PreviousPrice(alert, current_price)
            IN CASE condition = "above" -> Result(current_price > threshold, alert)
                 [] condition = "below" -> Result(current_price < threshold, alert)
                 [] condition = "crosses_above" ->
                        Result(previous_price <= threshold /\ threshold < current_price,
                               Observe(alert, current_price))
                 [] condition = "crosses_below" ->
                        Result(CrossesBelow(previous_price, threshold, current_price),
                               Observe(alert, current_price))
                 [] OTHER -> Result(FALSE, alert)

\* a slip: the weights of the moving average exchanged
MovingAverageSwapped(avg_volume, current_volume) ==
    (3 * avg_volume + 7 * current_volume) \div 10

\* Volumes are multiples of 10 here, so 0.7*avg + 0.3*current is a whole
\* number and current > avg*(threshold/100) is 100*current > avg*threshold.
\* (avg_volume * 0.7) + (current_volume * 0.3)
MovingAverage(avg_volume, current_volume) ==
    (7 * avg_volume + 3 * current_volume) \div 10

\* a slip: an alert without a stored average compared against zero
AverageVolumeZero(alert, current_volume) == Get(alert, "avg_volume", 0)

\* avg_volume = alert.get("avg_volume", current_volume)
AverageVolume(alert, current_volume) == Get(alert, "avg_volume", current_volume)

evaluate_volume_alert(alert, coins) ==
    LET symbol == Upper(Get(alert, "symbol", <<>>))
        value == Get(alert, "value", NumV(0))
        coin == FindCoin(coins, symbol, 1)
    IN IF ~value.numeric THEN Raised(alert)
       ELSE IF coin = None THEN Result(FALSE, alert)
       ELSE LET threshold == value.n
                current_volume == coin[1].volume24h
                avg_volume == AverageVolume(alert, current_volume)
            IN IF 100 * current_volume > avg_volume * threshold
               THEN Result(TRUE, Put(alert, "avg_volume",
                                     MovingAverage(avg_volume, current_volume)))
               ELSE Result(FALSE, alert)

\* a slip: "decrease" taken to include a fall of exactly the threshold
DecreasedAtLeast(change, threshold) == change <= -threshold

\* change < -threshold
Decreased(change, threshold) == change < -threshold

evaluate_change_alert(alert, coins) ==
    LET symbol == Upper(Get(alert, "symbol", <<>>))
        condition == Get(alert, "condition", "increase")
        value == Get(alert, "value", NumV(0))
        coin == FindCoin(coins, symbol, 1)
    IN IF ~value.numeric THEN Raised(alert)
       ELSE IF coin = None THEN Result(FALSE, alert)
       ELSE LET threshold == value.n
                change == coin[1].change24h
            IN CASE condition = "increase" -> Result(change > threshold, alert)
                 [] condition = "decrease" -> Result(Decreased(change, threshold), alert)
                 [] condition = "volatility" -> Result(Abs(change) > threshold, alert)
                 [] OTHER -> Result(FALSE, alert)

\* a slip: "above" taken to include the threshold itself
SentimentAtLeast(current_sentiment, threshold) == current_sentiment >= threshold

\* current_sentiment > threshold
SentimentAbove(current_sentiment, threshold) == current_sentiment > threshold

\* sentiment is the sentiment.json file: None when it does not exist, else
\* Some(dict).  The whole body is inside try/except, so float() raising on
\* the threshold ends in "return False".
evaluate_sentiment_alert(alert, sentiment) ==
    IF sentiment = None THEN Result(FALSE, alert)
    ELSE LET sentiment_data == sentiment[1]
             value == Get(alert, "value", NumV(DEFAULT_SENTIMENT))
         IN IF ~value.numeric THEN Result(FALSE, alert)
            ELSE LET threshold == value.n
                     current_sentiment == Get(sentiment_data, "overall_sentiment",
                                              DEFAULT_SENTIMENT)
                     condition == GetOpt(alert, "condition")
                 IN CASE condition = Some("above") ->
                             Result(SentimentAbove(current_sentiment, threshold), alert)
                      [] condition = Some("below") ->
                             Result(current_sentiment < threshold, alert)
                      [] OTHER -> Result(FALSE, alert)

\* a slip: an alert of any other type evaluated as a price alert
evaluate_alert_as_price(alert, coins, sentiment) ==
    LET alert_type == Get(alert, "type", "price")
    IN CASE alert_type = "volume" -> evaluate_volume_alert(alert, coins)
         [] alert_type = "change" -> evaluate_change_alert(alert, coins)
         [] alert_type = "sentiment" -> evaluate_sentiment_alert(alert, sentiment)
         [] OTHER -> evaluate_price_alert(alert, coins)

evaluate_alert(alert, coins, sentiment) ==
    LET alert_type == Get(alert, "type", "price")
    IN CASE alert_type = "price" -> evaluate_price_alert(alert, coins)
         [] alert_type = "volume" -> evaluate_volume_alert(alert, coins)
         [] alert_type = "change" -> evaluate_change_alert(alert, coins)
         [] alert_type = "sentiment" -> evaluate_sentiment_alert(alert, sentiment)
         [] OTHER -> Result(FALSE, alert)

\* a slip: the loop skipping triggered alerts only
EligibleUnlessTriggered(alert) == ~Truthy(alert, "triggered")

\* a slip: the loop skipping inactive alerts only
EligibleIfActive(alert) == Truthy(alert, "active")

\* if not alert.get("active") or alert.get("triggered"): continue
Eligible(alert) == Truthy(alert, "active") /\ ~Truthy(alert, "triggered")

\* The for loop of check_alerts from position i on.  fired holds the
\* positions of the alerts appended to triggered_alerts, in order; stop is
\* the position whose evaluation raised (Len + 1 when none did).
RECURSIVE CheckLoop(_, _, _, _, _, _)
CheckLoop(als, i, coins, sentiment, t, fired) ==
    IF i > Len(als)
    THEN [alerts |-> als, fired |-> fired, raised |-> FALSE, stop |-> i]
    ELSE IF ~Eligible(als[i])
    THEN CheckLoop(als, i + 1, coins, sentiment, t, fired)
    ELSE LET r == evaluate_alert(als[i], coins, sentiment)
         IN IF r.raised
            THEN [alerts |-> [als EXCEPT ![i] = r.alert], fired |-> fired,
                  raised |-> TRUE, stop |-> i]
            ELSE IF r.fired
            THEN CheckLoop([als EXCEPT ![i] =
                               Put(Put(r.alert, "triggered", TRUE), "triggered_at", Some(t))],
                           i + 1, coins, sentiment, t, Append(fired, i))
            ELSE CheckLoop([als EXCEPT ![i] = r.alert], i + 1, coins, sentiment, t, fired)

-----------------------------------------------------------------------------
(* The audit log *)

get_triggered_value(alert) ==
    LET alert_type == GetOpt(alert, "type")
    IN CASE alert_type = Some("price") -> Some(Get(alert, "last_price", 0))
         [] alert_type = Some("volume") -> Some(Get(alert, "avg_volume", 0))
         [] alert_type = Some("change") -> Some(Get(alert, "last_change", 0))
         [] alert_type = Some("sentiment") -> Some(Get(alert, "last_sentiment", DEFAULT_SENTIMENT))
         [] OTHER -> None

LogEntry(alert, t) ==
    [timestamp |-> t,
     alert_id |-> GetOpt(alert, "id"),
     symbol |-> GetOpt(alert, "symbol"),
     type |-> GetOpt(alert, "type"),
     condition |-> GetOpt(alert, "condition"),
     value |-> GetOpt(alert, "value"),
     triggered_value |-> get_triggered_value(alert)]

\* the entries of one batch, for the alerts at positions fired of als
LogEntries(als, fired, t) == [k \in 1..Len(fired) |-> LogEntry(als[fired[k]], t)]

\* a slip: the log written back without the truncation
NewLogDataUncapped(logfile, als, fired, t) ==
    ReadList(logfile) \o LogEntries(als, fired, t)

\* log_triggered_alerts up to the write: read, append, keep the last LOG_CAP
NewLogData(logfile, als, fired, t) ==
    LastN(ReadList(logfile) \o LogEntries(als, fired, t), LOG_CAP)

-----------------------------------------------------------------------------
(* Inputs offered to the operations *)

BTC == <<"B", "T", "C">>
ETH == <<"E", "T", "H">>

Prices == {90, 95, 105}

\* snapshots: no coin at all, or BTC at one of the prices
MarketData == {<<>>} \cup {<<Coin(BTC, p, 1000, 5)>> : p \in Prices}

\* sentiment.json: missing, or holding an overall sentiment
Sentiments == {None, Some([overall_sentiment |-> 75])}

PCross == [type |-> "price", symbol |-> BTC, condition |-> "crosses_above", value |-> NumV(100)]
PAbove == [type |-> "price", symbol |-> BTC, condition |-> "above", value |-> NumV(100)]
PNonNumeric == [type |-> "price", symbol |-> BTC, condition |-> "above", value |-> StrV]
PTriggered == [type |-> "price", symbol |-> BTC, condition |-> "above", value |-> NumV(100),
               triggered |-> TRUE]
PBelow == [type |-> "price", symbol |-> BTC, condition |-> "below", value |-> NumV(100)]

\* change alerts with a threshold of 5 percent
PIncrease == [type |-> "change", symbol |-> BTC, condition |-> "increase", value |-> NumV(5)]
PDecrease == [type |-> "change", symbol |-> BTC, condition |-> "decrease", value |-> NumV(5)]
PVolatility == [type |-> "change", symbol |-> BTC, condition |-> "volatility",
                value |-> NumV(5)]

\* snapshots: BTC with a price and a 24h change below, at and above the
\* thresholds of the price and change payloads
CompareData ==
    {<<Coin(BTC, 100, 1000, 5)>>, <<Coin(BTC, 105, 1000, 6)>>,
     <<Coin(BTC, 95, 1000, -5)>>, <<Coin(BTC, 90, 1000, -6)>>}

\* a payload that brings an id of its own
PWithId == [type |-> "price", symbol |-> BTC, condition |-> "above", value |-> NumV(100),
            id |-> <<"mine", 0, 0>>]

\* a payload that switches the alert off
PInactive == [type |-> "price", symbol |-> BTC, condition |-> "above", value |-> NumV(100),
              active |-> FALSE]
PSentiment == [type |-> "sentiment", condition |-> "above", value |-> NumV(60)]

PSentimentBelow == [type |-> "sentiment", condition |-> "below", value |-> NumV(60)]

\* sentiment.json: missing, written without an overall sentiment, or holding
\* one below, at or above the threshold of the sentiment payloads
SentimentFiles ==
    {None, Some([timestamp |-> 0])}
        \cup {Some([overall_sentiment |-> v]) : v \in {40, 60, 75}}

PCrossBelow == [type |-> "price", symbol |-> BTC, condition |-> "crosses_below",
                value |-> NumV(100)]

\* an alert of a type the dispatch does not know
PUnknown == [type |-> "news", symbol |-> BTC, condition |-> "above", value |-> NumV(100)]

\* the symbol written in lower case, by the caller or by the data feed
BtcLower == <<"b", "t", "c">>

PLower == [type |-> "price", symbol |-> BtcLower, condition |-> "above", value |-> NumV(100)]

\* snapshots of one coin above the threshold: BTC, btc or ETH
SymbolData == {<<Coin(sym, 105, 1000, 5)>> : sym \in {BTC, BtcLower, ETH}}

\* a volume alert created with a running average: spike at 200% of 1000
PVolume == [type |-> "volume", symbol |-> BTC, value |-> NumV(200), avg_volume |-> 1000]

Volumes == {2000, 2500}

\* snapshots: no coin at all, or BTC with one of the volumes
VolumeData == {<<>>} \cup {<<Coin(BTC, 105, v, 5)>> : v \in Volumes}

\* volume alerts created without a running average, with a threshold of
\* 50%, 100% and 200% of it
PVolumeHalf == [type |-> "volume", symbol |-> BTC, value |-> NumV(50)]
PVolumeSame == [type |-> "volume", symbol |-> BTC, value |-> NumV(100)]
PVolumeDouble == [type |-> "volume", symbol |-> BTC, value |-> NumV(200)]

SeedVolumes == {0, 2000}

\* snapshots: no coin at all, or BTC with no volume or with some
SeedData == {<<>>} \cup {<<Coin(BTC, 105, v, 5)>> : v \in SeedVolumes}

-----------------------------------------------------------------------------
(* History kept for the properties, one record per in-memory alert, about  *)
(* the cycles of this process that evaluated the alert with its symbol in  *)
(* the snapshot (its observations):                                        *)
(*   seen   the alert has been observed, or was loaded from the file and   *)
(*          may have been observed by an earlier process;                  *)
(*   last   the price of the latest observation;                           *)
(*   prev   the price of the observation before it, when this process made *)
(*          both and evaluated the alert in every cycle between them;      *)
(*   first  the latest observation was the first since the creation.       *)

NewHist == [seen |-> FALSE, last |-> None, prev |-> None, first |-> FALSE]
LoadedHist == [seen |-> TRUE, last |-> None, prev |-> None, first |-> FALSE]

ObservedPrice(alert, coins) ==
    LET coin == FindCoin(coins, Upper(Get(alert, "symbol", <<>>)), 1)
    IN IF coin = None THEN None ELSE Some(coin[1].price)

\* r is the outcome of the loop of check_alerts over alerts
HistAfterCycle(r, coins) ==
    [i \in 1..Len(alerts) |->
        IF ~Eligible(alerts[i]) THEN hist[i]
        ELSE IF r.raised /\ i >= r.stop
        THEN [seen |-> hist[i].seen, last |-> None, prev |-> None, first |-> FALSE]
        ELSE IF ObservedPrice(alerts[i], coins) = None THEN hist[i]
        ELSE [seen |-> TRUE, last |-> ObservedPrice(alerts[i], coins),
              prev |-> hist[i].last, first |-> ~hist[i].seen]]

\* op is the method called, coins and sentiment the snapshot and the
\* sentiment file check_alerts was given, alert_id the argument of
\* delete_alert (and the id of the alert given to the notification), status
\* the answer of the webhook, limit the argument of get_alert_history; id,
\* ok, fired and entries are the values returned
NoRet == [op |-> "init", raised |-> FALSE, id |-> None, ok |-> TRUE, fired |-> <<>>,
          coins |-> <<>>, sentiment |-> None, alert_id |-> None,
          status |-> None, limit |-> 0, entries |-> <<>>]

-----------------------------------------------------------------------------
(* Operations of AlertSystem *)

\* a process that has not constructed its AlertSystem yet; writes lists the
\* files the process has written in its current call of check_alerts
NewProc == [pc |-> "new", alerts |-> <<>>, fired |-> <<>>, log_data |-> <<>>,
            writes |-> <<>>]

Instances == {1, 2}

NoProcs == [p \in Instances |-> NewProc]

Init ==
    /\ alerts = <<>>
    /\ disk = File(<<>>)
    /\ log = File(<<>>)
    /\ now = 0
    /\ ret = NoRet
    /\ hist = <<>>
    /\ faults = 0
    /\ procs = NoProcs

\* alert_id = f"alert_{int(time.time())}_{len(self.alerts)}"
NewId(t, n) == <<"alert", t, n>>

NewAlert(alert_data, t, n) ==
    Merge([id |-> NewId(t, n), created |-> t, active |-> TRUE, triggered |-> FALSE,
           triggered_at |-> None],
          alert_data)

create_alert(alert_data, outcome) ==
    /\ Len(alerts) < MaxAlerts
    /\ Faulted(outcome)
    /\ alerts' = Append(alerts, NewAlert(alert_data, now, Len(alerts)))
    /\ disk' = WriteFile(disk, alerts', outcome)
    /\ ret' = [NoRet EXCEPT !.op = "create", !.raised = (outcome # "ok"),
                            !.id = IF outcome = "ok" THEN Some(NewId(now, Len(alerts)))
                                   ELSE None]
    /\ hist' = Append(hist, NewHist)
    /\ UNCHANGED <<log, now, procs>>

CheckRet(coins, sentiment) ==
    [NoRet EXCEPT !.op = "check", !.coins = coins, !.sentiment = sentiment]

\* the entries of the log written since the model's initial state: the
\* clock starts at 0 and entries older than that carry earlier timestamps
Fresh(entries) == {k \in 1..Len(entries) : entries[k].timestamp >= 0}

\* save and logwrite are the outcomes of the two file writes; a write the
\* call does not reach has no outcome, and "ok" stands for it
check_alerts(coins, sentiment, save, logwrite) ==
    LET r == CheckLoop(alerts, 1, coins, sentiment, now, <<>>)
    IN /\ Cardinality(Fresh(ReadList(log)))
             + Cardinality({i \in 1..Len(alerts) : Eligible(alerts[i])}) <= MaxLog
       /\ Faulted(IF save # "ok" THEN save ELSE logwrite)
       /\ alerts' = r.alerts
       /\ hist' = HistAfterCycle(r, coins)
       /\ UNCHANGED <<now, procs>>
       /\ IF r.raised
          THEN /\ save = "ok" /\ logwrite = "ok"
               /\ ret' = [CheckRet(coins, sentiment) EXCEPT !.raised = TRUE]
               /\ UNCHANGED <<disk, log>>
          ELSE IF r.fired = <<>>
          THEN /\ save = "ok" /\ logwrite = "ok"
               /\ ret' = CheckRet(coins, sentiment)
               /\ UNCHANGED <<disk, log>>
          ELSE IF save # "ok"
          THEN /\ logwrite = "ok"
               /\ disk' = WriteFile(disk, r.alerts, save)
               /\ ret' = [CheckRet(coins, sentiment) EXCEPT !.raised = TRUE]
               /\ UNCHANGED log
          ELSE /\ disk' = WriteFile(disk, r.alerts, save)
               /\ log' = WriteFile(log, NewLogData(log, r.alerts, r.fired, now), logwrite)
               /\ ret' = [CheckRet(coins, sentiment) EXCEPT
                              !.raised = (logwrite # "ok"),
                              !.fired = IF logwrite = "ok" THEN r.fired ELSE <<>>]

\* a slip: delete_alert purging the triggered alerts as well
KeepsUntriggered(a, alert_id) ==
    GetOpt(a, "id") # Some(alert_id) /\ ~Truthy(a, "triggered")

\* a.get("id") != alert_id
Keeps(a, alert_id) == GetOpt(a, "id") # Some(alert_id)

delete_alert(alert_id, outcome) ==
    LET keep == {i \in 1..Len(alerts) : Keeps(alerts[i], alert_id)}
        kept == SelectIdx(alerts, keep, 1)
    IN /\ Faulted(outcome)
       /\ alerts' = kept
       /\ hist' = SelectIdx(hist, keep, 1)
       /\ IF Len(kept) < Len(alerts)
          THEN /\ disk' = WriteFile(disk, kept, outcome)
               /\ ret' = [NoRet EXCEPT !.op = "delete", !.alert_id = Some(alert_id),
                                       !.raised = (outcome # "ok"),
                                       !.ok = (outcome = "ok")]
          ELSE /\ outcome = "ok"
               /\ disk' = disk
               /\ ret' = [NoRet EXCEPT !.op = "delete", !.alert_id = Some(alert_id), !.ok = FALSE]
       /\ UNCHANGED <<log, now, procs>>

\* a slip: clearing the alerts taking the audit log with them
clear_all_alerts_and_log(outcome) ==
    /\ Faulted(outcome)
    /\ alerts' = <<>>
    /\ hist' = <<>>
    /\ disk' = WriteFile(disk, <<>>, outcome)
    /\ log' = File(<<>>)
    /\ ret' = [NoRet EXCEPT !.op = "clear", !.raised = (outcome # "ok")]
    /\ UNCHANGED <<now, procs>>

clear_all_alerts(outcome) ==
    /\ Faulted(outcome)
    /\ alerts' = <<>>
    /\ hist' = <<>>
    /\ disk' = WriteFile(disk, <<>>, outcome)
    /\ ret' = [NoRet EXCEPT !.op = "clear", !.raised = (outcome # "ok")]
    /\ UNCHANGED <<log, now, procs>>

\* s[start:] of Python: a negative start counts from the end
SliceFrom(s, start) ==
    LET lo == IF start < 0
              THEN (IF Len(s) + start < 0 THEN 0 ELSE Len(s) + start)
              ELSE (IF start > Len(s) THEN Len(s) ELSE start)
    IN SubSeq(s, lo + 1, Len(s))

\* return log_data[-limit:], or [] when the file is missing or unreadable
get_alert_history(limit) ==
    /\ ret' = [NoRet EXCEPT !.op = "history", !.limit = limit,
                            !.entries = SliceFrom(ReadList(log), -limit)]
    /\ UNCHANGED <<alerts, disk, log, now, hist, faults, procs>>

\* a.get("active") and not a.get("triggered")
Listed(a) == Truthy(a, "active") /\ ~Truthy(a, "triggered")

\* [a for a in self.alerts if a.get("active") and not a.get("triggered")]
ActiveAlerts(als) == SelectIdx(als, {i \in 1..Len(als) : Listed(als[i])}, 1)

\* the list is returned in ret.entries
get_active_alerts ==
    /\ ret' = [NoRet EXCEPT !.op = "active", !.entries = ActiveAlerts(alerts)]
    /\ UNCHANGED <<alerts, disk, log, now, hist, faults, procs>>

\* what requests.post gave: the status code of a response, or None when it
\* raised (connection error, timeout)
Responses == {Some(200), Some(204), Some(404), Some(500), None}

\* a slip: every response taken for a success
DeliveredUnlessError(response) == response # None

\* return response.status_code == 200; except: return False
Delivered(response) == response = Some(200)

\* send_webhook_notification(webhook_url, alert) for the stored alert at
\* position i, which has fired
send_webhook_notification(i, response) ==
    /\ Truthy(alerts[i], "triggered")
    /\ ret' = [NoRet EXCEPT !.op = "notify", !.alert_id = GetOpt(alerts[i], "id"),
                            !.status = response, !.ok = Delivered(response)]
    /\ UNCHANGED <<alerts, disk, log, now, hist, faults, procs>>

\* the process ends (or is killed) and a new AlertSystem is constructed:
\* __init__ sets self.alerts = self.load_alerts()
Restart ==
    /\ alerts' = LoadAlerts
    /\ hist' = [i \in 1..Len(LoadAlerts) |-> LoadedHist]
    /\ ret' = NoRet
    /\ UNCHANGED <<disk, log, now, faults, procs>>

Tick ==
    /\ now < MaxClock
    /\ now' = now + 1
    /\ UNCHANGED <<alerts, disk, log, ret, hist, faults, procs>>

\* the ids a caller may pass to delete_alert: those stored and one that is not
DeleteIds == {alerts[i].id : i \in 1..Len(alerts)} \cup {NewId(MaxClock + 1, 0)}

\* one call of a method of the AlertSystem object: create_alert with a
\* payload of P, check_alerts with a snapshot of M and a sentiment file of S,
\* the file writes ending in one of the outcomes W
Call(P, M, S, W) ==
    \/ \E p \in P, o \in W : create_alert(p, o)
    \/ \E c \in M, s \in S, o1 \in W, o2 \in W : check_alerts(c, s, o1, o2)
    \/ \E id \in DeleteIds, o \in W : delete_alert(id, o)
    \/ \E o \in W : clear_all_alerts(o)

\* Price alerts, some of them with a threshold that is not a number, while
\* every file write succeeds; the process may restart between calls
Next ==
    \/ Call({PCross, PNonNumeric}, MarketData, {None}, {"ok"})
    \/ Restart

Spec == Init /\ [][Next]_vars

\* Payloads that carry keys of the alert record itself
NextPayload ==
    \/ Call({PAbove, PTriggered}, MarketData, {None}, {"ok"})
    \/ Restart

SpecPayload == Init /\ [][NextPayload]_vars

\* The clock advancing between calls
NextClock ==
    \/ Call({PAbove}, MarketData, {None}, {"ok"})
    \/ Tick

SpecClock == Init /\ [][NextClock]_vars

\* File writes that may fail
NextFaults ==
    \/ Call({PCross}, MarketData, {None}, WriteOutcomes)
    \/ Restart

SpecFaults == Init /\ [][NextFaults]_vars

\* A log that earlier cycles have filled up to one entry below the cap:
\* entry k was written at second k - LOG_CAP, before the clock of the model
\* starts, for an alert created in that second as the first of the store;
\* the alerts have been deleted since
OldEntry(k) == LogEntry(NewAlert(PAbove, k - LOG_CAP, 0), k - LOG_CAP)

FullLog == [k \in 1..(LOG_CAP - 1) |-> OldEntry(k)]

InitCap ==
    /\ alerts = <<>>
    /\ disk = File(<<>>)
    /\ log = File(FullLog)
    /\ now = 0
    /\ ret = NoRet
    /\ hist = <<>>
    /\ faults = 0
    /\ procs = NoProcs

\* snapshots with BTC below and above the threshold of PAbove
CapData == {<<Coin(BTC, p, 1000, 5)>> : p \in {95, 105}}

NextCap == Call({PAbove}, CapData, {None}, {"ok"})

SpecCap == InitCap /\ [][NextCap]_vars

\* Sentiment alerts; the snapshot plays no part in their evaluation
NextSentiment ==
    \/ Call({PSentiment, PSentimentBelow}, {<<>>}, SentimentFiles, {"ok"})
    \/ Restart

SpecSentiment == Init /\ [][NextSentiment]_vars

\* Symbols in upper and lower case, in the alerts and in the snapshots
NextSymbols ==
    \/ Call({PAbove, PLower}, SymbolData, {None}, {"ok"})
    \/ Restart

SpecSymbols == Init /\ [][NextSymbols]_vars

\* Alerts of an unknown type next to price alerts
NextTypes ==
    \/ Call({PUnknown, PAbove}, MarketData, {None}, {"ok"})
    \/ Restart

SpecTypes == Init /\ [][NextTypes]_vars

\* The caller sending a notification for alerts that have fired
NextNotify ==
    \/ Call({PAbove}, CapData, {None}, {"ok"})
    \/ \E i \in 1..Len(alerts), r \in Responses : send_webhook_notification(i, r)

SpecNotify == Init /\ [][NextNotify]_vars

\* the limits a caller passes to get_alert_history
Limits == 0..(MaxLog + 1)

\* The caller reading the audit log
NextHistory ==
    \/ Call({PAbove}, CapData, {None}, {"ok"})
    \/ \E n \in Limits : get_alert_history(n)

SpecHistory == Init /\ [][NextHistory]_vars

\* Crossing alerts of both directions
NextCross == Call({PCross, PCrossBelow}, CapData, {None}, {"ok"})

SpecCross == Init /\ [][NextCross]_vars

\* Volume alerts
NextVolume ==
    \/ Call({PVolume}, VolumeData, {None}, {"ok"})
    \/ Restart

SpecVolume == Init /\ [][NextVolume]_vars

\* Alerts switched off by their payload next to alerts that can fire
NextActive ==
    \/ Call({PAbove, PInactive}, CapData, {None}, {"ok"})
    \/ get_active_alerts
    \/ Restart

SpecActive == Init /\ [][NextActive]_vars

\* Alerts whose payload may carry an id
NextIds == Call({PAbove, PWithId}, CapData, {None}, {"ok"})

SpecIds == Init /\ [][NextIds]_vars

\* Price alerts and change alerts that compare the snapshot with a threshold
\* alerts files holding two alerts, each a price alert or a change alert
CompareStores ==
    {<<NewAlert(p, 0, 0), NewAlert(q, 0, 1)>> :
        p \in {PAbove, PBelow, PIncrease, PDecrease, PVolatility},
        q \in {PAbove, PBelow, PIncrease, PDecrease, PVolatility}}

\* an AlertSystem constructed on one of those files
InitCompare ==
    /\ \E store \in CompareStores :
          /\ disk = File(store)
          /\ alerts = ReadList(File(store))
    /\ log = File(<<>>)
    /\ now = 0
    /\ ret = NoRet
    /\ hist = <<LoadedHist, LoadedHist>>
    /\ faults = 0
    /\ procs = NoProcs

NextCompare ==
    \/ \E c \in CompareData : check_alerts(c, None, "ok", "ok")
    \/ Restart

SpecCompare == InitCompare /\ [][NextCompare]_vars

\* Volume alerts that start without a running average
NextSeed ==
    \/ Call({PVolumeHalf, PVolumeSame, PVolumeDouble}, SeedData, {None}, {"ok"})
    \/ Restart

SpecSeed == Init /\ [][NextSeed]_vars

-----------------------------------------------------------------------------
(* Concurrent cycles: several processes, each with its own AlertSystem     *)
(* object, on one data directory.  A step is what one process does between *)
(* two accesses to the shared files; the code takes no lock around them.   *)

StoredAlerts == <<NewAlert(PAbove, 0, 0), NewAlert(PCross, 0, 1)>>

InitConc ==
    /\ alerts = <<>>
    /\ disk = File(StoredAlerts)
    /\ log = File(<<>>)
    /\ now = 0
    /\ ret = NoRet
    /\ hist = <<>>
    /\ faults = 0
    /\ procs = NoProcs

\* __init__: self.alerts = self.load_alerts()
Construct(p) ==
    /\ procs[p].pc = "new"
    /\ procs' = [procs EXCEPT ![p] = [NewProc EXCEPT !.pc = "ready", !.alerts = LoadAlerts]]
    /\ UNCHANGED <<alerts, disk, log, now, ret, hist, faults>>

\* a slip: the audit log written without the alerts being saved
AfterLoopLogOnly(fired) == IF fired = <<>> THEN "ready" ELSE "read_log"

\* if triggered_alerts: self.save_alerts(); self.log_triggered_alerts(...)
AfterLoop(fired) == IF fired = <<>> THEN "ready" ELSE "save"

\* check_alerts up to "if triggered_alerts:"
RunLoop(p, coins, sentiment) ==
    LET r == CheckLoop(procs[p].alerts, 1, coins, sentiment, now, <<>>)
    IN /\ procs[p].pc = "ready"
       /\ Cardinality(Fresh(ReadList(log)))
             + Cardinality({i \in 1..Len(procs[p].alerts) : Eligible(procs[p].alerts[i])})
             <= MaxLog
       /\ procs' = [procs EXCEPT ![p] =
                       [pc |-> AfterLoop(r.fired),
                        alerts |-> r.alerts, fired |-> r.fired, log_data |-> <<>>,
                        writes |-> <<>>]]
       /\ UNCHANGED <<alerts, disk, log, now, ret, hist, faults>>

\* self.save_alerts()
SaveAlerts(p) ==
    /\ procs[p].pc = "save"
    /\ disk' = File(procs[p].alerts)
    /\ procs' = [procs EXCEPT ![p].pc = "read_log",
                              ![p].writes = Append(@, "alerts")]
    /\ UNCHANGED <<alerts, log, now, ret, hist, faults>>

\* log_triggered_alerts up to the write: read the file, append, truncate
ReadLog(p) ==
    /\ procs[p].pc = "read_log"
    /\ procs' = [procs EXCEPT ![p].pc = "write_log",
                              ![p].log_data =
                                  NewLogData(log, procs[p].alerts, procs[p].fired, now)]
    /\ UNCHANGED <<alerts, disk, log, now, ret, hist, faults>>

\* with open(log_file, 'w') as f: json.dump(log_data, f, indent=2)
WriteLog(p) ==
    /\ procs[p].pc = "write_log"
    /\ log' = File(procs[p].log_data)
    /\ procs' = [procs EXCEPT ![p].pc = "ready", ![p].fired = <<>>, ![p].log_data = <<>>,
                              ![p].writes = Append(@, "log")]
    /\ UNCHANGED <<alerts, disk, now, ret, hist, faults>>

NextConc ==
    \E p \in Instances :
        \/ Construct(p)
        \/ \E c \in MarketData : RunLoop(p, c, None)
        \/ SaveAlerts(p)
        \/ ReadLog(p)
        \/ WriteLog(p)

SpecConc == InitConc /\ [][NextConc]_vars

-----------------------------------------------------------------------------
(* Repeated runs: two AlertSystem objects load the same alerts file and    *)
(* each runs the loop of check_alerts once, with the same snapshot and the *)
(* same sentiment file, at times of their own.  ret holds the arguments.   *)

\* alerts files: a crossing alert that has or has not observed a price,
\* followed by a volume alert, an alert with a threshold that is not a
\* number, or a sentiment alert
TwinStores ==
    {<<a, b>> : a \in {NewAlert(PCross, 0, 0),
                       Put(NewAlert(PCross, 0, 0), "last_price", 95)},
               b \in {NewAlert(PVolume, 0, 1), NewAlert(PNonNumeric, 0, 1),
                       NewAlert(PSentimentBelow, 0, 1)}}

TwinData == {<<>>, <<Coin(BTC, 95, 2000, 5)>>, <<Coin(BTC, 105, 2500, 5)>>}

TwinSentiments == {None, Some([timestamp |-> 0]), Some([overall_sentiment |-> 75])}

InitTwin ==
    /\ alerts = <<>>
    /\ disk \in {File(store) : store \in TwinStores}
    /\ log = File(<<>>)
    /\ now = 0
    /\ ret \in {CheckRet(c, s) : c \in TwinData, s \in TwinSentiments}
    /\ hist = <<>>
    /\ faults = 0
    /\ procs = NoProcs

\* the for loop of check_alerts, once, on the arguments held in ret
Rerun(p) ==
    LET r == CheckLoop(procs[p].alerts, 1, ret.coins, ret.sentiment, now, <<>>)
    IN /\ procs[p].pc = "ready"
       /\ procs' = [procs EXCEPT ![p] =
                       [pc |-> IF r.raised THEN "raised" ELSE "done",
                        alerts |-> r.alerts, fired |-> r.fired, log_data |-> <<>>,
                        writes |-> <<>>]]
       /\ UNCHANGED <<alerts, disk, log, now, ret, hist, faults>>

NextTwin ==
    \/ \E p \in Instances : Construct(p) \/ Rerun(p)
    \/ Tick

SpecTwin == InitTwin /\ [][NextTwin]_vars

-----------------------------------------------------------------------------
(* Properties *)

IsTriggered(alert) == Truthy(alert, "triggered")

\* the step is a call of check_alerts
CheckStep == ret'.op = "check" /\ now' = now /\ Len(alerts') = Len(alerts)

\* the positions of the alerts a step turned from untriggered to triggered
NewlyTriggered ==
    {i \in 1..Len(alerts) : ~IsTriggered(alerts[i]) /\ IsTriggered(alerts'[i])}

Range(s) == {s[k] : k \in 1..Len(s)}

Min(a, b) == IF a < b THEN a ELSE b

IsCrossAbove(alert) ==
    /\ Get(alert, "type", "price") = "price"
    /\ Get(alert, "condition", "above") = "crosses_above"
    /\ Get(alert, "value", NumV(0)).numeric

\* C1: a call of check_alerts leaves every field of an alert that is
\* already triggered as it was, and does not return that alert.
C1_TriggeredIsTerminal ==
    [][CheckStep =>
          \A i \in 1..Len(alerts) :
              IsTriggered(alerts[i]) =>
                  alerts'[i] = alerts[i] /\ i \notin Range(ret'.fired)]_vars

\* a cycle has returned nothing while a triggered crossing alert was stored
C1_Witness ==
    /\ ret.op = "check" /\ ~ret.raised /\ ret.fired = <<>>
    /\ \E i \in 1..Len(alerts) :
          IsTriggered(alerts[i]) /\ Get(alerts[i], "last_price", 0) = 105

\* C2: every call of check_alerts appends as many audit entries as it
\* turned alerts to triggered (the log is far below its cap here).
C2_LogGrowsByFiredCount ==
    [][CheckStep =>
          Len(ReadList(log')) =
              Min(Len(ReadList(log)) + Cardinality(NewlyTriggered), LOG_CAP)]_vars

\* C3: a crosses_above alert does not fire on its first observation, and
\* when this process observed it in consecutive cycles it fired in the
\* latest one exactly if the previous price was <= threshold < the latest.
C3_CrossesAbove ==
    \A i \in 1..Len(alerts) :
        (IsCrossAbove(alerts[i]) /\ hist[i].last # None) =>
            /\ hist[i].first => ~IsTriggered(alerts[i])
            /\ hist[i].prev # None =>
                  (IsTriggered(alerts[i]) <=>
                      /\ hist[i].prev[1] <= alerts[i].value.n
                      /\ alerts[i].value.n < hist[i].last[1])

\* threshold 100 crossed from 95 to 105: the alert has fired
C3_Witness ==
    \E i \in 1..Len(alerts) :
        /\ IsCrossAbove(alerts[i]) /\ alerts[i].value.n = 100
        /\ hist[i].prev = Some(95) /\ hist[i].last = Some(105)
        /\ IsTriggered(alerts[i])

\* C4: a cycle that changes carry-state and fires no alert still leaves
\* the alerts file equal to the alerts in memory.
C4_CarryStatePersisted ==
    [][(CheckStep /\ ~ret'.raised /\ ret'.fired = <<>> /\ alerts' # alerts) =>
          LoadAlerts' = alerts']_vars

\* C5: no two stored alerts share an id.
C5_IdsUnique ==
    \A i, j \in 1..Len(alerts) : i # j => alerts[i].id # alerts[j].id

\* C6: when the write of the alerts file fails during check_alerts, no
\* alert is left newly marked triggered in memory.
C6_FailedSaveMarksNothing ==
    [][(CheckStep /\ ret'.raised /\ faults' # faults /\ LoadAlerts' # alerts') =>
          NewlyTriggered = {}]_vars

\* C7: when create_alert, delete_alert, clear_all_alerts or check_alerts
\* has returned, the alerts file holds the alerts in memory.
C7_FileEqualsMemory ==
    (ret.op \in {"create", "delete", "clear", "check"} /\ ~ret.raised) =>
        LoadAlerts = alerts

\* C9: whatever happens during a write of the alerts file, a load after it
\* observes the complete old list or the complete new one.
C9_AtomicWrite ==
    [][LoadAlerts' \in {LoadAlerts, alerts'}]_vars

\* C10: every stored alert is untriggered with triggered_at None, or
\* triggered with a triggered_at.
C10_TriggeredIffStamped ==
    \A i \in 1..Len(alerts) :
        IsTriggered(alerts[i]) <=> (Get(alerts[i], "triggered_at", None) # None)

\* C8: cycles of concurrent processes are serialized, so no alert gets two
\* audit entries.
C8_OneAuditEntryPerAlert ==
    \A j, k \in 1..Len(ReadList(log)) :
        j # k => ReadList(log)[j].alert_id # ReadList(log)[k].alert_id

\* C11: create_alert, when it returns, has stored as the last alert one
\* that is active, untriggered, without triggered_at, created now and
\* carrying the returned id, which no alert stored before had, and has
\* written the alerts file.
C11_CreateInitialState ==
    [][(ret'.op = "create" /\ ~ret'.raised /\ Len(alerts') = Len(alerts) + 1) =>
          LET a == alerts'[Len(alerts')]
          IN /\ Truthy(a, "active")
             /\ Get(a, "triggered", TRUE) = FALSE
             /\ Get(a, "triggered_at", Some(now)) = None
             /\ Get(a, "created", now + 1) = now
             /\ GetOpt(a, "id") = ret'.id
             /\ \A i \in 1..Len(alerts) : GetOpt(alerts[i], "id") # ret'.id
             /\ LoadAlerts' = alerts']_vars

\* C12: no alert with a threshold that is not a number is ever stored, and
\* no call of check_alerts raises while evaluating.
C12_NonNumericRejected ==
    /\ \A i \in 1..Len(alerts) : Get(alerts[i], "value", NumV(0)).numeric
    /\ ~(ret.op = "check" /\ ret.raised)

\* the coin of the snapshot an alert refers to, as None or Some(coin)
ObservedCoin(alert, coins) == FindCoin(coins, Upper(Get(alert, "symbol", <<>>)), 1)

IsVolumeWithAverage(alert) ==
    /\ Get(alert, "type", "price") = "volume"
    /\ Get(alert, "value", NumV(0)).numeric
    /\ "avg_volume" \in DOMAIN alert

\* C13: a volume alert with stored average A and threshold P, evaluated
\* in a cycle that observes volume V, fires exactly if V > A * P / 100;
\* when it fires its stored average becomes 0.7 A + 0.3 V, else it stays A.
C13_VolumeSpike ==
    [][(CheckStep /\ ~ret'.raised) =>
          \A i \in 1..Len(alerts) :
              (/\ Eligible(alerts[i])
               /\ IsVolumeWithAverage(alerts[i])
               /\ ObservedCoin(alerts[i], ret'.coins) # None) =>
                  LET A == alerts[i].avg_volume
                      P == alerts[i].value.n
                      V == ObservedCoin(alerts[i], ret'.coins)[1].volume24h
                      spike == 100 * V > A * P
                  IN /\ (i \in NewlyTriggered) <=> spike
                     /\ (i \in Range(ret'.fired)) <=> spike
                     /\ alerts'[i].avg_volume =
                           IF spike THEN (7 * A + 3 * V) \div 10 ELSE A]_vars

\* average 1000, threshold 200, volume 2500: fired, and the average is 1450
C13_Witness ==
    /\ ret.op = "check" /\ ret.fired # <<>>
    /\ \E i \in Range(ret.fired) :
          /\ IsVolumeWithAverage(alerts[i]) /\ alerts[i].value.n = 200
          /\ ObservedCoin(alerts[i], ret.coins) # None
          /\ ObservedCoin(alerts[i], ret.coins)[1].volume24h = 2500
          /\ IsTriggered(alerts[i]) /\ alerts[i].avg_volume = 1450

\* the value of the metric an alert watches, as the cycle's inputs gave it
ObservedMetric(alert, coins, sentiment) ==
    LET alert_type == Get(alert, "type", "price")
        coin == ObservedCoin(alert, coins)
    IN CASE alert_type = "price" -> coin[1].price
         [] alert_type = "volume" -> coin[1].volume24h
         [] alert_type = "change" -> coin[1].change24h
         [] OTHER -> Get(sentiment[1], "overall_sentiment", DEFAULT_SENTIMENT)

\* C14: the audit entry a cycle writes for a fired alert carries that
\* alert's id and, as triggered_value, the value of its metric in the
\* cycle's snapshot.
C14_TriggeredValueIsObserved ==
    [][(CheckStep /\ ~ret'.raised) =>
          \A k \in 1..Len(ret'.fired) :
              LET alert == alerts'[ret'.fired[k]]
                  entries == ReadList(log')
                  entry == entries[Len(entries) - Len(ret'.fired) + k]
              IN /\ entry.alert_id = GetOpt(alert, "id")
                 /\ entry.triggered_value =
                       Some(ObservedMetric(alert, ret'.coins, ret'.sentiment))]_vars

\* C15: the audit log never holds more than 1000 entries.
C15_LogAtMostCap == Len(ReadList(log)) <= LOG_CAP

\* a batch has taken the log past the cap and the oldest entry is gone
C15_Witness ==
    /\ ret.op = "check" /\ ret.fired # <<>>
    /\ Len(ReadList(log)) = LOG_CAP
    /\ ReadList(log)[1] # OldEntry(1)

\* C16: a cycle that fires alerts leaves as the log the last 1000 entries
\* of the previous log followed by one new entry per fired alert, in firing
\* order; every other step leaves the log as it was.
C16_AppendOnlyFifo ==
    [][IF CheckStep /\ ~ret'.raised /\ ret'.fired # <<>>
       THEN LET old == ReadList(log)
                new == ReadList(log')
                n == Len(ret'.fired)
                batch == [k \in 1..n |-> new[Len(new) - n + k]]
                whole == old \o batch
            IN /\ \A k \in 1..n :
                     /\ batch[k].alert_id = GetOpt(alerts'[ret'.fired[k]], "id")
                     /\ batch[k].timestamp = now
               /\ new = IF Len(whole) <= LOG_CAP THEN whole
                        ELSE SubSeq(whole, Len(whole) - LOG_CAP + 1, Len(whole))
       ELSE log' = log]_vars

\* two new entries follow the old ones, of which only the oldest is gone
C16_Witness ==
    /\ ret.op = "check" /\ ret.fired # <<>>
    /\ Cardinality(Fresh(ReadList(log))) = 2
    /\ ReadList(log)[1] = OldEntry(2)
    /\ ReadList(log)[LOG_CAP - 2] = OldEntry(LOG_CAP - 1)

\* the step is a call of delete_alert
DeleteStep == ret'.op = "delete" /\ now' = now

\* the positions of the stored alerts that carry the id passed to delete_alert
Hits == {i \in 1..Len(alerts) : GetOpt(alerts[i], "id") = ret'.alert_id}

\* C17: delete_alert with an id that no stored alert has returns False and
\* leaves the alerts in memory and the alerts file as they were.
C17_DeleteMissing ==
    [][(DeleteStep /\ Hits = {}) =>
          /\ ~ret'.ok /\ ~ret'.raised
          /\ alerts' = alerts
          /\ disk' = disk]_vars

\* delete_alert has returned False while alerts, one of them triggered,
\* are stored and on file
C17_Witness ==
    /\ ret.op = "delete" /\ ~ret.ok
    /\ \A i \in 1..Len(alerts) : GetOpt(alerts[i], "id") # ret.alert_id
    /\ \E i \in 1..Len(alerts) : IsTriggered(alerts[i])
    /\ \E i \in 1..Len(alerts) : ~IsTriggered(alerts[i])
    /\ LoadAlerts = alerts

\* C18: delete_alert returns True exactly if an alert with the id was
\* stored, and then removes that one alert, leaves the others as they were
\* and in their order, and writes the alerts file.
C18_DeleteExactlyOne ==
    [][(DeleteStep /\ ~ret'.raised) =>
          /\ ret'.ok <=> Hits # {}
          /\ Hits # {} =>
                /\ \E i \in Hits :
                      alerts' = SelectIdx(alerts, (1..Len(alerts)) \ {i}, 1)
                /\ LoadAlerts' = alerts']_vars

IsSentiment(alert) ==
    Get(alert, "type", "price") = "sentiment"
        /\ Get(alert, "value", NumV(DEFAULT_SENTIMENT)).numeric

\* the sentiment file the step's cycle was given holds an overall sentiment
SentimentObserved ==
    ret'.sentiment # None /\ "overall_sentiment" \in DOMAIN ret'.sentiment[1]

\* C19: a sentiment alert with threshold T, evaluated in a cycle that
\* observes the sentiment S, fires exactly if its condition is above and
\* S > T or its condition is below and S < T.
C19_SentimentComparison ==
    [][(CheckStep /\ ~ret'.raised /\ SentimentObserved) =>
          \A i \in 1..Len(alerts) :
              (Eligible(alerts[i]) /\ IsSentiment(alerts[i])) =>
                  LET S == ret'.sentiment[1].overall_sentiment
                      T == Get(alerts[i], "value", NumV(DEFAULT_SENTIMENT)).n
                      condition == GetOpt(alerts[i], "condition")
                      fires == \/ condition = Some("above") /\ S > T
                               \/ condition = Some("below") /\ S < T
                  IN /\ (i \in NewlyTriggered) <=> fires
                     /\ (i \in Range(ret'.fired)) <=> fires]_vars

\* sentiment 75: the alert above 60 has fired and the alert below 60 has not
C19_Witness ==
    /\ ret.op = "check" /\ ret.sentiment = Some([overall_sentiment |-> 75])
    /\ \E i \in Range(ret.fired) :
          /\ IsSentiment(alerts[i]) /\ alerts[i].condition = "above"
          /\ alerts[i].value.n = 60 /\ IsTriggered(alerts[i])
    /\ \E i \in 1..Len(alerts) :
          /\ IsSentiment(alerts[i]) /\ alerts[i].condition = "below"
          /\ alerts[i].value.n = 60 /\ ~IsTriggered(alerts[i])

\* C20: a cycle whose sentiment file is missing, or holds no overall
\* sentiment, raises nothing and fires no sentiment alert.
C20_AbsentSentimentNeverFires ==
    [][(CheckStep /\ ~SentimentObserved) =>
          /\ ~ret'.raised
          /\ \A i \in NewlyTriggered : Get(alerts[i], "type", "price") # "sentiment"]_vars

IsCoinAlert(alert) == Get(alert, "type", "price") \in {"price", "volume", "change"}

\* the eligible alerts on a coin whose symbol the step's snapshot lacks
AbsentSymbol ==
    {i \in 1..Len(alerts) :
        /\ Eligible(alerts[i]) /\ IsCoinAlert(alerts[i])
        /\ ObservedCoin(alerts[i], ret'.coins) = None}

\* C21: a cycle leaves every alert whose symbol is absent from its
\* snapshot as it was, still eligible, and a cycle in which every eligible
\* alert is such an alert raises no error.
C21_AbsentSymbolNoEffect ==
    [][CheckStep =>
          /\ \A i \in AbsentSymbol : alerts'[i] = alerts[i]
          /\ (AbsentSymbol = {i \in 1..Len(alerts) : Eligible(alerts[i])}) => ~ret'.raised]_vars

\* the entries of a snapshot whose symbol is the alert's up to letter case
SameSymbol(alert, coins) ==
    {k \in 1..Len(coins) : Upper(coins[k].symbol) = Upper(Get(alert, "symbol", <<>>))}

\* C22: a price alert with condition above fires in a cycle exactly if
\* the snapshot has an entry with the alert's symbol, compared without
\* regard to letter case, whose price is above the threshold.
C22_CaseInsensitiveLookup ==
    [][(CheckStep /\ ~ret'.raised) =>
          \A i \in 1..Len(alerts) :
              (/\ Eligible(alerts[i])
               /\ Get(alerts[i], "type", "price") = "price"
               /\ Get(alerts[i], "condition", "above") = "above"
               /\ Get(alerts[i], "value", NumV(0)).numeric) =>
                  ((i \in NewlyTriggered) <=>
                      \E k \in SameSymbol(alerts[i], ret'.coins) :
                          /\ \A j \in SameSymbol(alerts[i], ret'.coins) : k <= j
                          /\ ret'.coins[k].price > alerts[i].value.n)]_vars

IsUnknownType(alert) ==
    Get(alert, "type", "price") \notin {"price", "volume", "change", "sentiment"}

\* C23: a cycle changes no field of an alert of an unknown type and does
\* not return it, and a cycle in which every eligible alert is of an
\* unknown type raises no error.
C23_UnknownTypeNeverFires ==
    [][CheckStep =>
          /\ \A i \in 1..Len(alerts) :
                IsUnknownType(alerts[i]) =>
                    alerts'[i] = alerts[i] /\ i \notin Range(ret'.fired)
          /\ (\A i \in 1..Len(alerts) : Eligible(alerts[i]) => IsUnknownType(alerts[i]))
                => ~ret'.raised]_vars

\* a cycle at price 105 has fired the price alert above 100 and left the
\* alert of unknown type with the same condition eligible
C23_Witness ==
    /\ ret.op = "check" /\ ret.fired # <<>>
    /\ ret.coins = <<Coin(BTC, 105, 1000, 5)>>
    /\ \E i \in 1..Len(alerts) :
          /\ IsUnknownType(alerts[i]) /\ Eligible(alerts[i])
          /\ alerts[i].condition = "above" /\ alerts[i].value.n = 100
          /\ i \notin Range(ret.fired)

\* the step is a call of send_webhook_notification
NotifyStep == ret'.op = "notify" /\ now' = now

\* C24: send_webhook_notification raises nothing and returns a boolean,
\* which is False when the post raised or the response is not a 2xx one,
\* and it leaves the alerts, the alerts file and the audit log as they were.
C24_NotificationOutcome ==
    [][NotifyStep =>
          /\ ~ret'.raised
          /\ ret'.ok \in BOOLEAN
          /\ (ret'.status = None \/ ret'.status[1] \notin 200..299) => ~ret'.ok
          /\ alerts' = alerts /\ disk' = disk /\ log' = log]_vars

\* the webhook answered 404 for a fired alert: False was returned, and the
\* alert is still triggered in memory and on file, with its audit entry
C24_Witness ==
    /\ ret.op = "notify" /\ ret.status = Some(404) /\ ~ret.ok
    /\ LoadAlerts = alerts
    /\ \E i \in 1..Len(alerts) :
          /\ GetOpt(alerts[i], "id") = ret.alert_id /\ IsTriggered(alerts[i])
          /\ \E k \in 1..Len(ReadList(log)) : ReadList(log)[k].alert_id = ret.alert_id

\* the step is a call of get_alert_history
HistoryStep == ret'.op = "history" /\ now' = now

\* C26: get_alert_history(n) returns the last n entries of the audit log
\* in their order, all of them when there are fewer than n: min(n, length
\* of the log) entries, for every n >= 0.
C26_HistoryLastN ==
    [][HistoryStep =>
          LET entries == ReadList(log)
              n == ret'.limit
              k == Min(n, Len(entries))
          IN /\ Len(ret'.entries) = k
             /\ ret'.entries = SubSeq(entries, Len(entries) - k + 1, Len(entries))]_vars

\* what a run leaves in an alert apart from the time stamp
Outcome(alert) ==
    [triggered |-> Truthy(alert, "triggered"),
     last_price |-> GetOpt(alert, "last_price"),
     avg_volume |-> GetOpt(alert, "avg_volume")]

HasRun(p) == procs[p].pc \in {"done", "raised"}

StoreStep == ret'.op \in {"create", "delete", "clear"} /\ now' = now

\* C27: create_alert, delete_alert and clear_all_alerts leave the audit
\* log as it was.
C27_LogIndependentOfStore == [][StoreStep => log' = log]_vars

\* an alert that fired has been deleted and its audit entry is still there
C27_Witness ==
    /\ ret.op = "delete" /\ ret.ok
    /\ \A i \in 1..Len(alerts) : GetOpt(alerts[i], "id") # ret.alert_id
    /\ \E k \in 1..Len(ReadList(log)) : ReadList(log)[k].alert_id = ret.alert_id

\* C28: when a call of check_alerts in which alerts fired returns, the
\* process has written the alerts file once and then the audit log once,
\* and the log ends with one entry per fired alert, in the order of the
\* fired alerts in the store.
C28_SaveThenLogOnce ==
    [][\A p \in Instances :
          (procs[p].pc \notin {"new", "ready"} /\ procs'[p].pc = "ready") =>
              LET fired == procs[p].fired
                  entries == ReadList(log')
                  n == Len(fired)
              IN /\ procs'[p].writes = <<"alerts", "log">>
                 /\ n > 0 /\ Len(entries) >= n
                 /\ \A k \in 1..n :
                       entries[Len(entries) - n + k].alert_id =
                           GetOpt(procs[p].alerts[fired[k]], "id")
                 /\ \A j, k \in 1..n : j < k => fired[j] < fired[k]]_vars

\* a cycle that fired two alerts has returned, both files written once
C28_Witness ==
    \E p \in Instances :
        /\ procs[p].pc = "ready" /\ procs[p].writes = <<"alerts", "log">>
        /\ Len(ReadList(log)) >= 2
        /\ LET entries == ReadList(log)
           IN /\ entries[Len(entries) - 1].alert_id = GetOpt(procs[p].alerts[1], "id")
              /\ entries[Len(entries)].alert_id = GetOpt(procs[p].alerts[2], "id")
              /\ entries[Len(entries)].timestamp = entries[Len(entries) - 1].timestamp

IsCrossBelow(alert) ==
    /\ Get(alert, "type", "price") = "price"
    /\ Get(alert, "condition", "above") = "crosses_below"
    /\ Get(alert, "value", NumV(0)).numeric

\* C29: a crosses_above or crosses_below alert that this process has
\* evaluated with its symbol in the snapshot holds, as last_price, the
\* price of the latest such cycle, whether or not it fired.
C29_LastPriceIsObserved ==
    \A i \in 1..Len(alerts) :
        ((IsCrossAbove(alerts[i]) \/ IsCrossBelow(alerts[i])) /\ hist[i].last # None) =>
            Get(alerts[i], "last_price", -1) = hist[i].last[1]

\* price 105 after 95: the crosses_above alert fired, the crosses_below
\* alert did not, and both hold 105
C29_Witness ==
    /\ ret.op = "check" /\ ret.coins = <<Coin(BTC, 105, 1000, 5)>>
    /\ \E i, j \in 1..Len(alerts) :
          /\ IsCrossAbove(alerts[i]) /\ i \in Range(ret.fired)
          /\ IsCrossBelow(alerts[j]) /\ ~IsTriggered(alerts[j])
          /\ hist[i].last = Some(105) /\ hist[j].last = Some(105)
          /\ alerts[i].last_price = 105 /\ alerts[j].last_price = 105

\* C30: a crosses_below alert does not fire on its first observation, and
\* when this process observed it in consecutive cycles it fired in the
\* latest one exactly if the previous price was >= threshold > the latest.
C30_CrossesBelow ==
    \A i \in 1..Len(alerts) :
        (IsCrossBelow(alerts[i]) /\ hist[i].last # None) =>
            /\ hist[i].first => ~IsTriggered(alerts[i])
            /\ hist[i].prev # None =>
                  (IsTriggered(alerts[i]) <=>
                      /\ hist[i].prev[1] >= alerts[i].value.n
                      /\ alerts[i].value.n > hist[i].last[1])

\* threshold 100 crossed from 105 to 95: the alert has fired
C30_Witness ==
    \E i \in 1..Len(alerts) :
        /\ IsCrossBelow(alerts[i]) /\ alerts[i].value.n = 100
        /\ hist[i].prev = Some(105) /\ hist[i].last = Some(95)
        /\ IsTriggered(alerts[i])

IsVolume(alert) ==
    /\ GetOpt(alert, "type") = Some("volume")
    /\ Get(alert, "value", NumV(0)).numeric

\* C31: the first cycle that evaluates a volume alert with its symbol in
\* the snapshot stores the observed volume as the alert's avg_volume, and
\* a cycle in which a volume alert does not fire leaves avg_volume as it is.
C31_AverageSeeded ==
    [][(CheckStep /\ ~ret'.raised) =>
          \A i \in 1..Len(alerts) :
              (/\ Eligible(alerts[i])
               /\ IsVolume(alerts[i])
               /\ ObservedCoin(alerts[i], ret'.coins) # None) =>
                  LET V == ObservedCoin(alerts[i], ret'.coins)[1].volume24h
                  IN /\ (~hist[i].seen /\ "avg_volume" \notin DOMAIN alerts[i]) =>
                            GetOpt(alerts'[i], "avg_volume") = Some(V)
                     /\ (i \notin NewlyTriggered) =>
                            GetOpt(alerts'[i], "avg_volume") =
                               IF hist[i].seen \/ "avg_volume" \in DOMAIN alerts[i]
                               THEN GetOpt(alerts[i], "avg_volume")
                               ELSE Some(V)]_vars

IsOff(alert) == ~Truthy(alert, "active") \/ Truthy(alert, "triggered")

Increasing(s) == \A j, k \in 1..Len(s) : j < k => s[j] < s[k]

\* C32: a call of check_alerts changes and returns only alerts that are
\* active and not triggered, which are the alerts get_active_alerts lists,
\* and returns them in the order of the store; get_active_alerts returns
\* those alerts in that order; create_alert, delete_alert and
\* clear_all_alerts change no stored alert, so an alert that is inactive or
\* triggered stays so for as long as it is stored.
C32_OnlyActiveEvaluated ==
    [][/\ CheckStep =>
            /\ \A i \in 1..Len(alerts) :
                   (alerts'[i] # alerts[i] \/ i \in Range(ret'.fired)) =>
                       ~IsOff(alerts[i]) /\ alerts[i] \in Range(ActiveAlerts(alerts))
            /\ \A i \in 1..Len(alerts) : IsOff(alerts[i]) => IsOff(alerts'[i])
            /\ Increasing(ret'.fired)
       /\ ret'.op = "active" =>
            /\ alerts' = alerts
            /\ \A a \in Range(alerts) : a \in Range(ret'.entries) <=> ~IsOff(a)
            /\ \E f \in [1..Len(ret'.entries) -> 1..Len(alerts)] :
                   /\ Increasing(f)
                   /\ \A k \in 1..Len(ret'.entries) : ret'.entries[k] = alerts[f[k]]
       /\ ret'.op = "create" =>
            \A i \in 1..Len(alerts) : alerts'[i] = alerts[i]
       /\ ret'.op \in {"delete", "clear"} =>
            \E f \in [1..Len(alerts') -> 1..Len(alerts)] :
                /\ Increasing(f)
                /\ \A k \in 1..Len(alerts') : alerts'[k] = alerts[f[k]]]_vars

\* a cycle with BTC above the threshold has fired the active alert stored
\* behind an inactive one and left the inactive one alone
C32_Witness ==
    /\ ret.op = "check" /\ ret.fired = <<2>>
    /\ Len(alerts) >= 2
    /\ ~Truthy(alerts[1], "active") /\ ~IsTriggered(alerts[1])
    /\ ObservedCoin(alerts[1], ret.coins) # None
    /\ ObservedCoin(alerts[1], ret.coins)[1].price = 105
    /\ IsTriggered(alerts[2])

IsComparison(alert) ==
    /\ Get(alert, "value", NumV(0)).numeric
    /\ \/ /\ GetOpt(alert, "type") = Some("price")
          /\ GetOpt(alert, "condition") \in {Some("above"), Some("below")}
       \/ /\ GetOpt(alert, "type") = Some("change")
          /\ GetOpt(alert, "condition") \in
                {Some("increase"), Some("decrease"), Some("volatility")}

\* what the claim says of an alert of threshold T and of the coin observed
Holds(alert, coin) ==
    LET T == alert.value.n
        c == coin.change24h
        cond == alert.condition
    IN CASE cond = "above" -> coin.price > T
         [] cond = "below" -> coin.price < T
         [] cond = "increase" -> c > T
         [] cond = "decrease" -> c < -T
         [] cond = "volatility" -> (IF c < 0 THEN -c ELSE c) > T

\* C33: in a cycle that observes its symbol, a change alert of threshold T
\* fires exactly if the 24h change c has c > T (increase), c < -T
\* (decrease) or |c| > T (volatility), and a price alert exactly if the price
\* is > T (above) or < T (below), never at equality; the cycle changes
\* nothing of the alert but the triggered flag and stamp when it fires.
C33_StrictComparisons ==
    [][(CheckStep /\ ~ret'.raised) =>
          \A i \in 1..Len(alerts) :
              (/\ ~IsOff(alerts[i])
               /\ IsComparison(alerts[i])
               /\ ObservedCoin(alerts[i], ret'.coins) # None) =>
                  LET fires == Holds(alerts[i], ObservedCoin(alerts[i], ret'.coins)[1])
                  IN /\ (i \in NewlyTriggered) <=> fires
                     /\ (i \in Range(ret'.fired)) <=> fires
                     /\ alerts'[i] =
                           IF fires
                           THEN [alerts[i] EXCEPT !.triggered = TRUE,
                                                  !.triggered_at = Some(now)]
                           ELSE alerts[i]]_vars

\* a fall of exactly the threshold (change -5, price 95) has left the
\* decrease alert untriggered and fired the price alert below 100 behind it
C33_Witness ==
    /\ ret.op = "check" /\ ret.fired = <<2>>
    /\ ret.coins = <<Coin(BTC, 95, 1000, -5)>>
    /\ alerts[1] = NewAlert(PDecrease, 0, 0)
    /\ IsTriggered(alerts[2]) /\ alerts[2].condition = "below"

\* C34: a call of check_alerts that raises leaves nothing half done: every
\* alert that is triggered in memory is triggered in the alerts file and
\* has an entry in the audit log.
C34_AllOrNothing ==
    \A i \in 1..Len(alerts) :
        IsTriggered(alerts[i]) =>
            /\ \E a \in Range(ReadList(disk)) :
                   GetOpt(a, "id") = GetOpt(alerts[i], "id") /\ IsTriggered(a)
            /\ \E e \in Range(ReadList(log)) : e.alert_id = GetOpt(alerts[i], "id")

\* C35: right after create_alert has returned an id, exactly one stored
\* alert has that id, so that delete_alert of the id would find an alert to
\* remove and return true.
C35_ReturnedIdIsStored ==
    [][(ret'.op = "create" /\ ~ret'.raised) =>
          /\ Cardinality({i \in 1..Len(alerts') :
                             GetOpt(alerts'[i], "id") = ret'.id}) = 1
          /\ \E i \in 1..Len(alerts') : ~Keeps(alerts'[i], ret'.id[1])]_vars

\* a volume alert whose threshold is at least 100 percent
IsHighVolume(alert) == IsVolume(alert) /\ alert.value.n >= 100

\* C36: a volume alert created without avg_volume and with a threshold of
\* 100 or more never fires, whatever volumes the cycles observe: it is never
\* triggered and never gets a stored average, in memory or in the alerts
\* file, and the audit log never holds an entry for such an alert.
C36_UnseededNeverFires ==
    /\ \A a \in Range(alerts) \cup Range(ReadList(disk)) :
           IsHighVolume(a) => ~IsTriggered(a) /\ "avg_volume" \notin DOMAIN a
    /\ \A e \in Range(ReadList(log)) : e.value[1].n < 100
    /\ ret.op = "check" =>
           \A i \in Range(ret.fired) : ~IsHighVolume(alerts[i])

\* two cycles in a row have observed an alert of threshold 100, the later
\* one with volume 2000, and that cycle fired the alert of threshold 50
\* stored next to it
C36_Witness ==
    /\ ret.op = "check" /\ ret.fired # <<>>
    /\ \E i \in 1..Len(alerts) :
          /\ IsHighVolume(alerts[i]) /\ alerts[i].value.n = 100
          /\ hist[i].prev # None
          /\ ObservedCoin(alerts[i], ret.coins) # None
          /\ ObservedCoin(alerts[i], ret.coins)[1].volume24h = 2000

=============================================================================
